---- MODULE Spec2Model ----
(***************************************************************************)
(* PRS_Automation: the pipeline orchestrator run_pipeline_cli (both        *)
(* variants: prs_gui.py and prs_pipeline.py), the score-script synthesizer *)
(* create_ett_score_script and the file-system artifacts they exchange.    *)
(***************************************************************************)
EXTENDS Integers, Sequences, FiniteSets, TLC

\* ------------------------------------------------------------------ bounds
MaxRows == 2      \* sample rows of an allele-count table
MaxRuns == 2
MaxNameLen == 3
MaxFiles == 2

Runs == 1..MaxRuns
Samples == {"S1", "S2"}
Variants == {"gui", "pipeline"}

\* The eight stages that invoke an external command, in source order.
Stages == <<"import", "normalize-ids", "score", "recode", "convert",
            "ancestry", "parse-ancestry", "report">>
StageSet == {Stages[i] : i \in 1..Len(Stages)}
Required == {"import", "normalize-ids", "score", "recode", "convert"}
Optional == {"ancestry", "parse-ancestry", "report"}
StageIndex(st) == CHOOSE i \in 1..Len(Stages) : Stages[i] = st

VARIABLES
    runs,       \* runs[r]: the state of one call of run_pipeline_cli
    fs,         \* the artifacts under BASE_DIR: path -> content
    script,     \* PRS_Files/ETT_score_2.sh, the scoring driver
    scoreDir,   \* the file names in the scoring-model directory
    mode,       \* how calls of run_pipeline_cli follow each other:
                \* "single" (one call), "sequential", "concurrent"
    driver,     \* the most recent execution of the generated scoring driver
    conversion  \* one execution of individual_conversion.py on a given table

vars == <<runs, fs, script, scoreDir, mode, driver, conversion>>

\* ------------------------------------------------------------- file system
\* A file: the run that wrote it (0: it was there before any run), what it
\* holds, and the sample its content refers to (if any).
FileRef(by, kind, ref) == [by |-> by, kind |-> kind, ref |-> ref]
File(by, kind) == FileRef(by, kind, "-")
Absent == File(0, "none")
Exists(p) == fs[p] # Absent

Shared == "-"
SamplePaths == {"vcf_dir", "prs_dir", "bed", "bed_id", "sscore", "raw", "conv", "geno"}
SharedPaths == {"template", "anc_geno", "anc_out", "parse_script", "report_script", "config"}
Paths == (SamplePaths \X Samples) \cup (SharedPaths \X {Shared})

\* The configuration store ~/.prs_pipeline_config.json.  Its kinds: "config"
\* (the defaults the module writes when the file is missing), "config_custom"
\* (saved settings: another plink2 and a scoring-model directory), "malformed"
\* (not JSON) and "unreadable" (it exists, open() fails).
ConfigPath == <<"config", Shared>>
DefaultConfig == File(0, "config")
ConfigFiles == {File(0, k) : k \in {"config", "config_custom", "malformed", "unreadable"}}
cfg_plink2 == "plink2"

\* What cfg.get(...) yields once the store has been loaded; an empty cfg
\* yields the defaults.
CfgOf(c) ==
    IF c.kind = "config_custom"
    THEN [plink2 |-> "/opt/plink2", prs_score_dir |-> "dir"]
    ELSE [plink2 |-> cfg_plink2, prs_score_dir |-> ""]

\* run_pipeline_cli: the load is inside try/except, any failure leaves cfg = {}.
load_config(c) == CfgOf(c)

\* create_ett_score_script: open() and json.load are not guarded.
synth_config(c) ==
    [raises |-> c.kind \in {"malformed", "unreadable"}, plink2 |-> CfgOf(c).plink2]

\* os.makedirs(path, exist_ok=True)
makedirs(f, p, r) == IF f[p] = Absent THEN [f EXCEPT ![p] = File(r, "dir")] ELSE f

\* os.path.exists(vcf): of the two paths a caller passes, only this one exists.
VcfArgs == {"", "missing.vcf", "ok.vcf"}
VcfExists(vcf) == vcf = "ok.vcf"

\* os.path.exists(prs_score_dir)
ScoreDirArgs == {"", "nodir", "dir"}
ScoreDirExists(d) == d = "dir"

\* ------------------------------------------------- scoring-model file names
\* A file name is a sequence of tokens; ".par" is the literal extension string,
\* the other tokens are characters that cannot form it.
Tokens == {"a", ".par"}
Names == UNION {[1..n -> Tokens] : n \in 1..MaxNameLen}

\* glob.glob(os.path.join(prs_score_dir, "*.par")): the names ending in .par;
\* a pattern that does not start with a dot never matches a hidden file.
glob(dir) == {n \in dir : n[Len(n)] = ".par" /\ n[1] # ".par"}

\* par_name.replace('.par', ''): every occurrence is removed.
replace_par(name) == SelectSeq(name, LAMBDA t : t # ".par")

\* The driver: the scoring binary and one command per model file.
NoScript == [exists |-> FALSE, by |-> 0, bin |-> "", cmds |-> <<>>]
\* The orders in which a directory enumeration may return a set of names.
Orders(S) == {o \in [1..Cardinality(S) -> S] : \A i, j \in DOMAIN o : o[i] = o[j] => i = j}

\* create_ett_score_script with par_files enumerated in order `order`:
\* the script content written to the fixed location.
script_content(order, r) ==
    [exists |-> TRUE, by |-> r, bin |-> synth_config(fs[ConfigPath]).plink2,
     cmds |-> [i \in DOMAIN order |->
                 [par |-> order[i], out |-> replace_par(order[i])]]]

\* --------------------------------------------- the generated driver script
\* No driver has run yet.
NoDriverRun == [caller |-> 0, args |-> <<"", "">>, cmds |-> <<>>, results |-> <<>>,
                attempted |-> <<>>, exit |-> -1]

\* The exit statuses the scoring binary may end with, one per model command.
ModelResults(cmds) == [DOMAIN cmds -> {"ok", "fail"}]

\* Faulty variant of exec_models: the script stops at the first failing
\* command (as under set -e).
RECURSIVE exec_models_abort(_, _, _)
exec_models_abort(cmds, res, i) ==
    IF i > Len(cmds) THEN <<>>
    ELSE IF res[i] = "ok"
    THEN <<[par |-> cmds[i].par, report |-> "completed"]>> \o exec_models_abort(cmds, res, i + 1)
    ELSE <<>>

\* The body of the generated script from command i on: each command runs, then
\* `if [ $? -eq 0 ]` echoes "completed" or "failed", and the script goes on.
RECURSIVE exec_models(_, _, _)
exec_models(cmds, res, i) ==
    IF i > Len(cmds) THEN <<>>
    ELSE <<[par |-> cmds[i].par,
            report |-> IF res[i] = "ok" THEN "completed" ELSE "failed"]>>
         \o exec_models(cmds, res, i + 1)

\* Faulty variant of driver_run: the script's exit status is that of its last
\* model command.
driver_run_laststatus(cmds, a1, a2, res) ==
    IF a1 = "" \/ a2 = ""
    THEN [caller |-> 0, args |-> <<a1, a2>>, cmds |-> cmds, results |-> res,
          attempted |-> <<>>, exit |-> 1]
    ELSE [caller |-> 0, args |-> <<a1, a2>>, cmds |-> cmds, results |-> res,
          attempted |-> exec_models(cmds, res, 1),
          exit |-> IF Len(cmds) > 0 /\ res[Len(cmds)] = "fail" THEN 1 ELSE 0]

\* The generated script called with arguments a1, a2: `exit 1` when one is
\* empty; else every command, and the status of the closing echo.
driver_run(cmds, a1, a2, res) ==
    IF a1 = "" \/ a2 = ""
    THEN [caller |-> 0, args |-> <<a1, a2>>, cmds |-> cmds, results |-> res,
          attempted |-> <<>>, exit |-> 1]
    ELSE [caller |-> 0, args |-> <<a1, a2>>, cmds |-> cmds, results |-> res,
          attempted |-> exec_models(cmds, res, 1), exit |-> 0]

\* ------------------------------------------------------------ run records
IdleRun == [pc |-> "idle", variant |-> "gui", vcf |-> "", sample |-> "",
            score_dir |-> "", proc |-> "none", invoked |-> <<>>,
            status |-> [s \in StageSet |-> "none"],
            outcome |-> "none", failedAt |-> "none", cause |-> "none",
            wrote |-> NoScript,   \* what this call's create_ett_score_script wrote
            anc_read |-> Absent,  \* the table this call's ancestry estimator read
            writes |-> {},        \* the locations this call has written
            reads |-> {},         \* the locations this call has read
            exit |-> -1,          \* the exit code of the process that made the call
            events |-> <<>>,      \* log lines and process starts, in the order they happen
            report |-> [handler |-> "none", text |-> <<>>],  \* the error line printed
            plink2_bin |-> ""]    \* the binary the call uses for normalize-ids

Terminal(r) == runs[r].pc = "done"
Live(r) == runs[r].pc \notin {"idle", "done"}

P(kind, r) == <<kind, runs[r].sample>>
S(kind) == <<kind, Shared>>

\* The locations a call has written (W) and read (R) so far.
Touch(rec, W, R) == [rec EXCEPT !.writes = @ \cup W, !.reads = @ \cup R]

\* What a child process with outcome o has touched: it reads its inputs once
\* started and has its outputs when it exits 0.
Ran(rec, o, W, R) ==
    Touch(rec, IF o = "ok" THEN W ELSE {}, IF o = "nostart" THEN {} ELSE R)

\* Faulty variant of run_start: the command is printed after subprocess.run.
run_start_logafter(rec, st, input) ==
    [rec EXCEPT !.proc = st,
                !.status[st] = "running",
                !.invoked = Append(@, [stage |-> st, input |-> input]),
                !.events = @ \o <<[kind |-> "start", stage |-> st],
                                  [kind |-> "log", stage |-> st]>>]

\* The helper run(): print ">>> RUN: ..." and start the child process.
run_start(rec, st, input) ==
    [rec EXCEPT !.proc = st,
                !.status[st] = "running",
                !.invoked = Append(@, [stage |-> st, input |-> input]),
                !.events = @ \o <<[kind |-> "log", stage |-> st],
                                  [kind |-> "start", stage |-> st]>>]

\* The executable of each stage command (the configured names at their
\* defaults) and the command line run() is given.
Binary(st) ==
    CASE st = "import" -> "plink"
      [] st = "normalize-ids" -> "plink2"
      [] st = "score" -> "bash"
      [] st = "recode" -> "plink"
      [] st = "convert" -> "python3"
      [] st = "ancestry" -> "docker"
      [] st = "parse-ancestry" -> "python"
      [] st = "report" -> "bash"

Command(st) ==
    CASE st = "import" -> <<Binary(st), "--vcf">>
      [] st = "normalize-ids" -> <<Binary(st), "--bfile", "--set-all-var-ids">>
      [] st = "score" -> <<Binary(st), "ETT_score_2.sh">>
      [] st = "recode" -> <<Binary(st), "--bfile", "--recode">>
      [] st = "convert" -> <<Binary(st), "individual_conversion.py">>
      [] st = "ancestry" -> <<Binary(st), "run">>
      [] st = "parse-ancestry" -> <<Binary(st), "ancestry_data_parse.py">>
      [] st = "report" -> <<Binary(st), "report_all_aut.sh">>

\* Faulty variant of ErrorText: the exception text names no command.
ErrorText_generic(st, o) == <<"error">>

\* str(e) of what subprocess.run raises: CalledProcessError names the whole
\* command, the FileNotFoundError of a missing executable names the executable.
ErrorText(st, o) == IF o = "fail" THEN Command(st) ELSE <<Binary(st)>>

\* The messages of the FileNotFoundError the orchestrator raises itself.
Message(st, variant, status) ==
    CASE st = "validate" -> <<"VCF file not found">>
      [] st = "score" /\ variant = "gui" -> <<"No .par files found">>
      [] st = "score" /\ variant = "pipeline" -> <<"ETT_score_2.sh not found">>
      [] st = "convert" /\ status = "none" -> <<"individual_conversion.py not found">>
      [] OTHER -> <<"Conversion did not produce">>

\* An exception reaching the handlers at the end of run_pipeline_cli, which
\* print it.
Raise(rec, st, exc) ==
    [rec EXCEPT !.pc = "done", !.proc = "none", !.outcome = "failed",
                !.failedAt = st, !.cause = exc,
                !.report = [handler |-> exc,
                            text |-> IF st \in StageSet /\ rec.status[st] \in {"fail", "nostart"}
                                     THEN ErrorText(st, rec.status[st])
                                     ELSE Message(st, rec.variant,
                                                  IF st \in StageSet THEN rec.status[st] ELSE "none")]]

\* subprocess.run(..., check=True) returning in stage st with outcome o:
\* "ok" (exit 0), "fail" (non-zero exit), "nostart" (the executable is missing).
Outcomes == {"ok", "fail", "nostart"}
Exc(o) == IF o = "fail" THEN "CalledProcessError" ELSE "FileNotFoundError"

\* Faulty variant of run_return: the exit status is not checked (check=True dropped).
run_return_nocheck(rec, st, o, next) ==
    [rec EXCEPT !.proc = "none", !.status[st] = o, !.pc = next]

\* Faulty variant of run_return: a failed invocation is tried again.
run_return_retry(rec, st, o, next) ==
    IF o = "ok"
    THEN [rec EXCEPT !.proc = "none", !.status[st] = "ok", !.pc = next]
    ELSE [rec EXCEPT !.proc = "none", !.status[st] = o]

run_return(rec, st, o, next) ==
    IF o = "ok"
    THEN [rec EXCEPT !.proc = "none", !.status[st] = "ok", !.pc = next]
    ELSE Raise([rec EXCEPT !.status[st] = o], st, Exc(o))

\* ------------------------------------------------------------------- Init
\* The converter has not been run on its own.
AbsentTable == [exists |-> FALSE, cols |-> <<>>, rows |-> <<>>]

NoConversion == [raw |-> AbsentTable, bim |-> FALSE, ret |-> "none", out |-> <<>>, exit |-> -1]

\* The converter template as shipped (src/individual_conversion.py): it names
\* the placeholder "HT.bim".
RealTemplate == FileRef(0, "real", "HT.bim")

\* What may lie under BASE_DIR before the first run: the optional parser and
\* report artifacts, the converter template and a scoring driver.
EnvInit ==
    /\ \E parse, report, tmpl \in BOOLEAN :
         fs = [p \in Paths |->
                 IF p = <<"parse_script", Shared>> /\ parse THEN File(0, "asset")
                 ELSE IF p = <<"report_script", Shared>> /\ report THEN File(0, "asset")
                 ELSE IF p = <<"template", Shared>> /\ tmpl THEN RealTemplate
                 ELSE IF p = ConfigPath THEN DefaultConfig
                 ELSE Absent]
    /\ script \in {NoScript, [exists |-> TRUE, by |-> 0, bin |-> "plink2", cmds |-> <<>>]}

Init ==
    /\ runs = [r \in Runs |-> IdleRun]
    /\ EnvInit
    /\ scoreDir \in {{}, {<<"a">>}, {<<"a", ".par">>}, {<<"a", ".par">>, <<"a", ".par", ".par">>}}
    /\ mode = "single"
    /\ driver = NoDriverRun
    /\ conversion = NoConversion

\* ---------------------------------------------------------------- actions
MayStart(r) ==
    /\ runs[r].pc = "idle"
    /\ \A q \in Runs : q < r => runs[q].pc # "idle"
    /\ mode = "single" => r = 1
    /\ mode # "concurrent" => \A q \in Runs : ~Live(q)

\* Faulty variant of Start: the directory structure is created before the
\* scoring-model directory is checked.
Start_mkdirs_first(r) ==
    /\ MayStart(r)
    /\ \E v \in Variants, vcf \in VcfArgs, id \in Samples \cup {""}, dir \in ScoreDirArgs :
         /\ v = "pipeline" => dir = ""
         /\ LET cfg == load_config(fs[ConfigPath])
                eff == IF v = "gui" /\ dir = "" THEN cfg.prs_score_dir ELSE dir
                rec == [runs[r] EXCEPT !.variant = v, !.vcf = vcf, !.sample = id,
                                       !.score_dir = eff, !.plink2_bin = cfg.plink2]
                returned == [rec EXCEPT !.pc = "done", !.outcome = "returned"]
            IN IF vcf = "" \/ id = ""
               THEN /\ runs' = [runs EXCEPT ![r] = returned]
                    /\ fs' = fs
               ELSE IF v = "gui" /\ (eff = "" \/ ~ScoreDirExists(eff))
               THEN /\ runs' = [runs EXCEPT ![r] =
                                 Touch(returned, {<<"vcf_dir", id>>, <<"prs_dir", id>>}, {})]
                    /\ fs' = makedirs(makedirs(fs, <<"vcf_dir", id>>, r), <<"prs_dir", id>>, r)
               ELSE /\ runs' = [runs EXCEPT ![r] =
                                 Touch([rec EXCEPT !.pc = "validate"],
                                       {<<"vcf_dir", id>>, <<"prs_dir", id>>}, {})]
                    /\ fs' = makedirs(makedirs(fs, <<"vcf_dir", id>>, r), <<"prs_dir", id>>, r)
    /\ UNCHANGED <<script, scoreDir, mode, driver, conversion>>

\* run_pipeline_cli up to the try block: the early returns and the directory
\* structure.
Start(r) ==
    /\ MayStart(r)
    /\ \E v \in Variants, vcf \in VcfArgs, id \in Samples \cup {""}, dir \in ScoreDirArgs :
         /\ v = "pipeline" => dir = ""
         /\ LET cfg == load_config(fs[ConfigPath])
                eff == IF v = "gui" /\ dir = "" THEN cfg.prs_score_dir ELSE dir
                rec == [runs[r] EXCEPT !.variant = v, !.vcf = vcf, !.sample = id,
                                       !.score_dir = eff, !.plink2_bin = cfg.plink2]
                returned == [rec EXCEPT !.pc = "done", !.outcome = "returned"]
            IN IF vcf = "" \/ id = ""
               THEN /\ runs' = [runs EXCEPT ![r] = returned]
                    /\ fs' = fs
               ELSE IF v = "gui" /\ (eff = "" \/ ~ScoreDirExists(eff))
               THEN /\ runs' = [runs EXCEPT ![r] = returned]
                    /\ fs' = fs
               ELSE /\ runs' = [runs EXCEPT ![r] =
                                 Touch([rec EXCEPT !.pc = "validate"],
                                       {<<"vcf_dir", id>>, <<"prs_dir", id>>}, {})]
                    /\ fs' = makedirs(makedirs(fs, <<"vcf_dir", id>>, r), <<"prs_dir", id>>, r)
    /\ UNCHANGED <<script, scoreDir, mode, driver, conversion>>

\* Faulty variant of Validate: the existence of the input is not checked.
Validate_skip(r) ==
    /\ runs[r].pc = "validate"
    /\ runs' = [runs EXCEPT ![r].pc = "import"]
    /\ UNCHANGED <<fs, script, scoreDir, mode, driver, conversion>>

\* Step 0: validate inputs.
Validate(r) ==
    /\ runs[r].pc = "validate"
    /\ runs' = [runs EXCEPT ![r] =
                  IF VcfExists(runs[r].vcf)
                  THEN [@ EXCEPT !.pc = "import"]
                  ELSE Raise(@, "validate", "FileNotFoundError")]
    /\ UNCHANGED <<fs, script, scoreDir, mode, driver, conversion>>

\* Step 1: PLINK import of the variant-call file.
Invoke_import(r) ==
    /\ runs[r].pc = "import" /\ runs[r].proc = "none"
    /\ runs' = [runs EXCEPT ![r] = run_start(@, "import", File(0, "vcf"))]
    /\ UNCHANGED <<fs, script, scoreDir, mode, driver, conversion>>

Return_import(r) ==
    /\ runs[r].proc = "import"
    /\ \E o \in Outcomes :
         /\ runs' = [runs EXCEPT ![r] = run_return(Ran(@, o, {P("bed", r)}, {S("vcf")}), "import", o, "normalize-ids")]
         /\ fs' = IF o = "ok" THEN [fs EXCEPT ![P("bed", r)] = File(r, "bed")] ELSE fs
    /\ UNCHANGED <<script, scoreDir, mode, driver, conversion>>

\* Step 2: PLINK2 rewrites the variant identifiers.
Invoke_normalize(r) ==
    /\ runs[r].pc = "normalize-ids" /\ runs[r].proc = "none"
    /\ runs' = [runs EXCEPT ![r] = run_start(@, "normalize-ids", fs[P("bed", r)])]
    /\ UNCHANGED <<fs, script, scoreDir, mode, driver, conversion>>

Return_normalize(r) ==
    /\ runs[r].proc = "normalize-ids"
    /\ \E o \in Outcomes :
         /\ runs' = [runs EXCEPT ![r] = run_return(Ran(@, o, {P("bed_id", r)}, {P("bed", r)}),
                                                  "normalize-ids", o, "score")]
         /\ fs' = IF o = "ok" THEN [fs EXCEPT ![P("bed_id", r)] = File(r, "bed_id")] ELSE fs
    /\ UNCHANGED <<script, scoreDir, mode, driver, conversion>>

\* Step 3, first half.  prs_gui.py: create_ett_score_script writes the driver,
\* or raises when no model file is found.  prs_pipeline.py: the driver must
\* already lie at its fixed location.
\* Faulty variant of create_ett_score_script: an empty set of model files
\* yields an empty driver.
create_ett_score_script_nocheck(r) ==
    /\ runs[r].pc = "score" /\ runs[r].variant = "gui"
    /\ \E order \in Orders(glob(scoreDir)) :
         /\ script' = script_content(order, r)
         /\ runs' = [runs EXCEPT ![r].pc = "score_run"]
    /\ UNCHANGED <<fs, scoreDir, mode, driver, conversion>>

create_ett_score_script(r) ==
    /\ runs[r].pc = "score" /\ runs[r].variant = "gui"
    /\ IF glob(scoreDir) = {}
       THEN /\ runs' = [runs EXCEPT ![r] =
                          Raise(Touch(@, {}, {S("score_dir")}), "score", "FileNotFoundError")]
            /\ script' = script
       ELSE IF synth_config(fs[ConfigPath]).raises
       THEN /\ runs' = [runs EXCEPT ![r] =
                          [Raise(Touch(@, {}, {S("score_dir"), S("config")}), "score", "Exception")
                              EXCEPT !.report.text = <<"config">>]]
            /\ script' = script
       ELSE \E order \in Orders(glob(scoreDir)) :
              /\ script' = script_content(order, r)
              /\ runs' = [runs EXCEPT ![r] =
                            Touch([@ EXCEPT !.pc = "score_run",
                                            !.wrote = script_content(order, r)],
                                  {S("score_script")}, {S("score_dir"), S("config")})]
    /\ UNCHANGED <<fs, scoreDir, mode, driver, conversion>>

CheckScoreScript(r) ==
    /\ runs[r].pc = "score" /\ runs[r].variant = "pipeline"
    /\ runs' = [runs EXCEPT ![r] =
                  IF script.exists
                  THEN Touch([@ EXCEPT !.pc = "score_run"], {}, {S("score_script")})
                  ELSE Raise(Touch(@, {}, {S("score_script")}), "score", "FileNotFoundError")]
    /\ UNCHANGED <<fs, script, scoreDir, mode, driver, conversion>>

\* Step 3, second half: bash runs the driver.
Invoke_score(r) ==
    /\ runs[r].pc = "score_run" /\ runs[r].proc = "none"
    /\ runs' = [runs EXCEPT ![r] = run_start(@, "score", fs[P("bed_id", r)])]
    /\ UNCHANGED <<fs, script, scoreDir, mode, driver, conversion>>

\* The outcomes of `bash ETT_score_2.sh <prefix> <prs_dir>`: a driver written by
\* create_ett_score_script ends as driver_run says (d), unless bash cannot be
\* started; one that lay there before any run is not constrained.
DriverOutcomes(d) ==
    IF script.by = 0 THEN Outcomes
    ELSE {"nostart", IF d.exit = 0 THEN "ok" ELSE "fail"}

Return_score(r) ==
    /\ runs[r].proc = "score"
    /\ \E res \in ModelResults(script.cmds) :
         LET d == driver_run(script.cmds, runs[r].sample, runs[r].sample, res)
         IN \E o \in DriverOutcomes(d) :
              /\ runs' = [runs EXCEPT ![r] =
                            run_return(Ran(@, o, {P("sscore", r)},
                                           {S("score_script"), S("score_dir"), P("bed_id", r)}),
                                       "score", o, "recode")]
              /\ fs' = IF o = "ok" THEN [fs EXCEPT ![P("sscore", r)] = File(r, "sscore")] ELSE fs
              /\ driver' = IF script.by # 0 /\ o # "nostart"
                           THEN [d EXCEPT !.caller = r] ELSE driver
    /\ UNCHANGED <<script, scoreDir, mode, conversion>>

\* The generated driver called by hand with any two arguments.
ManualDriver ==
    /\ script.by # 0
    /\ driver = NoDriverRun
    /\ \E a1, a2 \in {"", "out"}, res \in ModelResults(script.cmds) :
         driver' = driver_run(script.cmds, a1, a2, res)
    /\ UNCHANGED <<runs, fs, script, scoreDir, mode, conversion>>

\* Step 4: PLINK re-exports the normalized set as an allele-count table.
Invoke_recode(r) ==
    /\ runs[r].pc = "recode" /\ runs[r].proc = "none"
    /\ runs' = [runs EXCEPT ![r] = run_start(@, "recode", fs[P("bed_id", r)])]
    /\ UNCHANGED <<fs, script, scoreDir, mode, driver, conversion>>

\* Faulty variant of Return_recode: a failure removes what the run has written.
Return_recode_rollback(r) ==
    /\ runs[r].proc = "recode"
    /\ \E o \in Outcomes :
         /\ runs' = [runs EXCEPT ![r] = run_return(Ran(@, o, {P("raw", r)}, {P("bed_id", r)}),
                                                  "recode", o, "convert_prep")]
         /\ fs' = IF o = "ok" THEN [fs EXCEPT ![P("raw", r)] = File(r, "raw")]
                  ELSE [p \in Paths |-> IF p[2] = runs[r].sample THEN Absent ELSE fs[p]]
    /\ UNCHANGED <<script, scoreDir, mode, driver, conversion>>

Return_recode(r) ==
    /\ runs[r].proc = "recode"
    /\ \E o \in Outcomes :
         /\ runs' = [runs EXCEPT ![r] = run_return(Ran(@, o, {P("raw", r)}, {P("bed_id", r)}),
                                                  "recode", o, "convert_prep")]
         /\ fs' = IF o = "ok" THEN [fs EXCEPT ![P("raw", r)] = File(r, "raw")] ELSE fs
    /\ UNCHANGED <<script, scoreDir, mode, driver, conversion>>

\* Step 5, first part: the converter template.  prs_gui.py writes a stub
\* template naming this sample's .bim when none exists, prs_pipeline.py raises.
\* Both then replace the placeholder "HT.bim" and write the per-sample copy.
patch(content, sample) ==
    IF content.ref = "HT.bim" THEN [content EXCEPT !.ref = sample] ELSE content

PatchTemplate(r) ==
    /\ runs[r].pc = "convert_prep"
    /\ LET tp == <<"template", Shared>>
           stub == FileRef(r, "stub", runs[r].sample)
       IN IF fs[tp] = Absent /\ runs[r].variant = "pipeline"
          THEN /\ runs' = [runs EXCEPT ![r] =
                             Raise(Touch(@, {}, {tp}), "convert", "FileNotFoundError")]
               /\ fs' = fs
          ELSE LET tmpl == IF fs[tp] = Absent THEN stub ELSE fs[tp]
               IN /\ fs' = [fs EXCEPT ![tp] = tmpl,
                                      ![P("conv", r)] = [patch(tmpl, runs[r].sample) EXCEPT !.by = r]]
                  /\ runs' = [runs EXCEPT ![r] =
                                Touch([@ EXCEPT !.pc = "convert"],
                                      {P("conv", r)} \cup (IF fs[tp] = Absent THEN {tp} ELSE {}),
                                      IF fs[tp] = Absent THEN {} ELSE {tp})]
    /\ UNCHANGED <<script, scoreDir, mode, driver, conversion>>

\* Step 5, second part: python3 runs the per-sample converter copy.
Invoke_convert(r) ==
    /\ runs[r].pc = "convert" /\ runs[r].proc = "none"
    /\ runs' = [runs EXCEPT ![r] = run_start(@, "convert", fs[P("raw", r)])]
    /\ UNCHANGED <<fs, script, scoreDir, mode, driver, conversion>>

\* What the converter copy can do.  The shipped converter exits 0 exactly when
\* it has written the genotype table, which needs individual_1.raw; the stub
\* reads the .raw and the .bim it names and writes nothing.
ConverterOutcomes(r) ==
    LET conv == fs[P("conv", r)]
        inputs == /\ Exists(P("raw", r))
                  /\ conv.kind = "stub" => Exists(<<"bed_id", conv.ref>>)
    IN IF inputs THEN Outcomes ELSE {"fail", "nostart"}

Return_convert(r) ==
    /\ runs[r].proc = "convert"
    /\ \E o \in ConverterOutcomes(r) :
         /\ runs' = [runs EXCEPT ![r] =
                       run_return(Ran(@, o,
                                      IF fs[P("conv", r)].kind = "real" THEN {P("geno", r)} ELSE {},
                                      {P("conv", r), P("raw", r), <<"bed_id", fs[P("conv", r)].ref>>}),
                                  "convert", o, "convert_check")]
         /\ fs' = IF o = "ok" /\ fs[P("conv", r)].kind = "real"
                  THEN [fs EXCEPT ![P("geno", r)] = FileRef(r, "table", runs[r].sample)]
                  ELSE fs
    /\ UNCHANGED <<script, scoreDir, mode, driver, conversion>>

\* Step 5, third part: the genotype table the converter must have produced.
\* prs_gui.py writes a placeholder in its place, prs_pipeline.py raises.
geno_missing(rec, r) ==
    IF rec.variant = "gui"
    THEN [rec EXCEPT !.pc = "copy"]
    ELSE Raise(rec, "convert", "FileNotFoundError")

CheckGeno(r) ==
    /\ runs[r].pc = "convert_check"
    /\ IF Exists(P("geno", r))
       THEN /\ runs' = [runs EXCEPT ![r] = Touch([@ EXCEPT !.pc = "copy"], {}, {P("geno", r)})]
            /\ fs' = fs
       ELSE /\ runs' = [runs EXCEPT ![r] =
                          geno_missing(Touch(@, IF runs[r].variant = "gui" THEN {P("geno", r)} ELSE {},
                                             {P("geno", r)}), r)]
            /\ fs' = IF runs[r].variant = "gui"
                     THEN [fs EXCEPT ![P("geno", r)] = FileRef(r, "placeholder", runs[r].sample)]
                     ELSE fs
    /\ UNCHANGED <<script, scoreDir, mode, driver, conversion>>

\* Step 6: safe_copy of the genotype table into the shared Ancestry directory.
safe_copy(r) ==
    /\ runs[r].pc = "copy"
    /\ fs' = [fs EXCEPT ![<<"anc_geno", Shared>>] = fs[P("geno", r)]]
    /\ runs' = [runs EXCEPT ![r] =
                  Touch([@ EXCEPT !.pc = "ancestry"], {S("anc_geno")}, {P("geno", r)})]
    /\ UNCHANGED <<script, scoreDir, mode, driver, conversion>>

\* Step 7: the ancestry estimator inside Docker.
Invoke_ancestry(r) ==
    /\ runs[r].pc = "ancestry" /\ runs[r].proc = "none"
    /\ runs' = [runs EXCEPT ![r] = run_start(@, "ancestry", fs[<<"anc_geno", Shared>>])]
    /\ UNCHANGED <<fs, script, scoreDir, mode, driver, conversion>>

\* prs_gui.py wraps the call in try/except Exception and goes on;
\* prs_pipeline.py lets the exception reach the handlers.
ancestry_return(rec, o) ==
    IF o # "ok" /\ rec.variant = "gui"
    THEN [rec EXCEPT !.proc = "none", !.status["ancestry"] = o, !.pc = "parse-ancestry"]
    ELSE run_return(rec, "ancestry", o, "parse-ancestry")

Return_ancestry(r) ==
    /\ runs[r].proc = "ancestry"
    /\ \E o \in Outcomes :
         /\ runs' = [runs EXCEPT ![r] =
                       ancestry_return(
                           Ran([@ EXCEPT !.anc_read = IF o = "ok" THEN fs[S("anc_geno")] ELSE @],
                               o, {S("anc_out")}, {S("anc_geno")}), o)]
         /\ fs' = IF o = "ok"
                  THEN [fs EXCEPT ![<<"anc_out", Shared>>] =
                          FileRef(r, "ancestry", fs[<<"anc_geno", Shared>>].ref)]
                  ELSE fs
    /\ UNCHANGED <<script, scoreDir, mode, driver, conversion>>

\* Steps 8 and 9: an optional artifact is run when it exists at its path,
\* else the step is skipped with a warning.
optional_step(rec, st, present, input, next) ==
    IF present
    THEN run_start(rec, st, input)
    ELSE [rec EXCEPT !.status[st] = "skipped", !.pc = next]

Invoke_parse(r) ==
    /\ runs[r].pc = "parse-ancestry" /\ runs[r].proc = "none"
    /\ runs' = [runs EXCEPT ![r] =
                  optional_step(@, "parse-ancestry", Exists(<<"parse_script", Shared>>),
                                fs[<<"anc_out", Shared>>], "report")]
    /\ UNCHANGED <<fs, script, scoreDir, mode, driver, conversion>>

Return_parse(r) ==
    /\ runs[r].proc = "parse-ancestry"
    /\ \E o \in Outcomes :
         runs' = [runs EXCEPT ![r] =
                    run_return(Ran(@, o, {}, {S("parse_script"), S("anc_out")}),
                               "parse-ancestry", o, "report")]
    /\ UNCHANGED <<fs, script, scoreDir, mode, driver, conversion>>

Invoke_report(r) ==
    /\ runs[r].pc = "report" /\ runs[r].proc = "none"
    /\ runs' = [runs EXCEPT ![r] =
                  optional_step(@, "report", Exists(<<"report_script", Shared>>),
                                fs[<<"anc_out", Shared>>], "finish")]
    /\ UNCHANGED <<fs, script, scoreDir, mode, driver, conversion>>

Return_report(r) ==
    /\ runs[r].proc = "report"
    /\ \E o \in Outcomes :
         runs' = [runs EXCEPT ![r] =
                    run_return(Ran(@, o, {}, {S("report_script"), S("anc_out")}),
                               "report", o, "finish")]
    /\ UNCHANGED <<fs, script, scoreDir, mode, driver, conversion>>

\* The success message at the end of the try block.
Finish(r) ==
    /\ runs[r].pc = "finish"
    /\ runs' = [runs EXCEPT ![r].pc = "done", ![r].outcome = "completed"]
    /\ UNCHANGED <<fs, script, scoreDir, mode, driver, conversion>>

\* __main__ with command-line arguments: run_pipeline_cli has returned (every
\* exception was caught inside it) and the interpreter reaches the end of the
\* script.
ProcessExit(r) ==
    /\ runs[r].pc = "done" /\ runs[r].exit = -1
    /\ runs' = [runs EXCEPT ![r].exit = 0]
    /\ UNCHANGED <<fs, script, scoreDir, mode, driver, conversion>>

Next ==
    \E r \in Runs :
        \/ Start(r)
        \/ Validate(r)
        \/ Invoke_import(r)
        \/ Return_import(r)
        \/ Invoke_normalize(r)
        \/ Return_normalize(r)
        \/ create_ett_score_script(r)
        \/ CheckScoreScript(r)
        \/ Invoke_score(r)
        \/ Return_score(r)
        \/ Invoke_recode(r)
        \/ Return_recode(r)
        \/ PatchTemplate(r)
        \/ Invoke_convert(r)
        \/ Return_convert(r)
        \/ CheckGeno(r)
        \/ safe_copy(r)
        \/ Invoke_ancestry(r)
        \/ Return_ancestry(r)
        \/ Invoke_parse(r)
        \/ Return_parse(r)
        \/ Invoke_report(r)
        \/ Return_report(r)
        \/ Finish(r)
        \/ ProcessExit(r)

Spec == Init /\ [][Next]_vars

\* ------------------------------------------- the synthesizer on its own
\* Every scoring-model directory of at most MaxFiles names.
Dirs == UNION {{{f[i] : i \in 1..n} : f \in [1..n -> Names]} : n \in 0..MaxFiles}

\* A prs_gui.py run that has imported and normalized its sample and is about
\* to call create_ett_score_script.
AtScore ==
    [IdleRun EXCEPT !.pc = "score", !.variant = "gui", !.vcf = "ok.vcf",
                    !.sample = "S1", !.score_dir = "dir", !.plink2_bin = cfg_plink2,
                    !.invoked = <<[stage |-> "import", input |-> File(0, "vcf")],
                                  [stage |-> "normalize-ids", input |-> File(1, "bed")]>>,
                    !.status = [s \in StageSet |->
                                  IF s \in {"import", "normalize-ids"} THEN "ok" ELSE "none"]]

\* Two calls (samples S1 and S2) that have both reached step 3 over the same
\* scoring-model directory.
AtScoreOf(r) ==
    [AtScore EXCEPT !.sample = IF r = 1 THEN "S1" ELSE "S2",
                    !.invoked[2].input = File(r, "bed")]

InitSynth ==
    /\ runs = [r \in Runs |-> IF r <= 2 THEN AtScoreOf(r) ELSE IdleRun]
    /\ fs = [p \in Paths |->
               IF p[1] \in {"vcf_dir", "prs_dir"} /\ p[2] \in Samples
               THEN File(IF p[2] = "S1" THEN 1 ELSE 2, "dir")
               ELSE IF p[1] \in {"bed", "bed_id"}
               THEN File(IF p[2] = "S1" THEN 1 ELSE 2, p[1])
               ELSE IF p = ConfigPath THEN DefaultConfig
               ELSE Absent]
    /\ script \in {NoScript, [exists |-> TRUE, by |-> 0, bin |-> "plink2", cmds |-> <<>>]}
    /\ scoreDir \in Dirs
    /\ mode = "concurrent"
    /\ driver = NoDriverRun
    /\ conversion = NoConversion

NextSynth == \E r \in Runs : create_ett_score_script(r)

SpecSynth == InitSynth /\ [][NextSynth]_vars

\* ---------------------------------------------- the driver on its own
\* A directory of k model files a.par, aa.par, ...
ParName(i) == [j \in 1..(i + 1) |-> IF j = i + 1 THEN ".par" ELSE "a"]
ParDir(k) == {ParName(i) : i \in 1..k}
MaxModels == IF MaxFiles < MaxNameLen - 1 THEN MaxFiles ELSE MaxNameLen - 1

InitDriver ==
    /\ runs = [r \in Runs |-> IF r = 1 THEN AtScore ELSE IdleRun]
    /\ fs = [p \in Paths |->
               IF p \in {<<"vcf_dir", "S1">>, <<"prs_dir", "S1">>} THEN File(1, "dir")
               ELSE IF p = <<"bed", "S1">> THEN File(1, "bed")
               ELSE IF p = <<"bed_id", "S1">> THEN File(1, "bed_id")
               ELSE IF p = ConfigPath THEN DefaultConfig
               ELSE Absent]
    /\ script \in {NoScript, [exists |-> TRUE, by |-> 0, bin |-> "plink2", cmds |-> <<>>]}
    /\ scoreDir \in {ParDir(k) : k \in 0..MaxModels}
    /\ mode = "single"
    /\ driver = NoDriverRun
    /\ conversion = NoConversion

NextDriver ==
    \/ \E r \in Runs :
          \/ create_ett_score_script(r)
          \/ Invoke_score(r)
          \/ Return_score(r)
    \/ ManualDriver

SpecDriver == InitDriver /\ [][NextDriver]_vars

\* ------------------------------------------ the configuration store varied
\* One call with every optional artifact and the converter template in place,
\* one model file, and the configuration store in each of its kinds.
InitCfg ==
    /\ runs = [r \in Runs |-> IdleRun]
    /\ \E c \in ConfigFiles :
         fs = [p \in Paths |->
                 IF p \in {<<"parse_script", Shared>>, <<"report_script", Shared>>}
                 THEN File(0, "asset")
                 ELSE IF p = <<"template", Shared>> THEN RealTemplate
                 ELSE IF p = ConfigPath THEN c
                 ELSE Absent]
    /\ script \in {NoScript, [exists |-> TRUE, by |-> 0, bin |-> "plink2", cmds |-> <<>>]}
    /\ scoreDir = {<<"a", ".par">>}
    /\ mode = "single"
    /\ driver = NoDriverRun
    /\ conversion = NoConversion

SpecCfg == InitCfg /\ [][Next]_vars

\* ------------------------------------------------ two concurrent processes
\* Two command-line processes started side by side on the same BASE_DIR, the
\* first for sample S1 and the second for S2, each with an existing input and
\* scoring-model directory.
InitConc ==
    /\ runs = [r \in Runs |-> IdleRun]
    /\ \E tmpl \in BOOLEAN :
         fs = [p \in Paths |->
                 IF p \in {<<"parse_script", Shared>>, <<"report_script", Shared>>}
                 THEN File(0, "asset")
                 ELSE IF p = <<"template", Shared>> /\ tmpl THEN RealTemplate
                 ELSE IF p = ConfigPath THEN DefaultConfig
                 ELSE Absent]
    /\ script = NoScript
    /\ scoreDir = {<<"a", ".par">>}
    /\ mode = "concurrent"
    /\ driver = NoDriverRun
    /\ conversion = NoConversion

StartConc(r) ==
    /\ r <= 2
    /\ Start(r)
    /\ runs'[r].pc = "validate"
    /\ runs'[r].vcf = "ok.vcf"
    /\ runs'[r].sample = (IF r = 1 THEN "S1" ELSE "S2")

NextConc ==
    \E r \in Runs :
        \/ StartConc(r)
        \/ Validate(r)
        \/ Invoke_import(r)
        \/ Return_import(r)
        \/ Invoke_normalize(r)
        \/ Return_normalize(r)
        \/ create_ett_score_script(r)
        \/ CheckScoreScript(r)
        \/ Invoke_score(r)
        \/ Return_score(r)
        \/ Invoke_recode(r)
        \/ Return_recode(r)
        \/ PatchTemplate(r)
        \/ Invoke_convert(r)
        \/ Return_convert(r)
        \/ CheckGeno(r)
        \/ safe_copy(r)
        \/ Invoke_ancestry(r)
        \/ Return_ancestry(r)
        \/ Invoke_parse(r)
        \/ Return_parse(r)
        \/ Invoke_report(r)
        \/ Return_report(r)
        \/ Finish(r)
        \/ ProcessExit(r)

SpecConc == InitConc /\ [][NextConc]_vars

\* ------------------------------------------ the genotype recode converter
\* individual_conversion.py.  Text is a sequence of tokens: "\t" and "_" are
\* the characters the code joins and splits on, every other token is a run of
\* characters without them.  A column name is such a sequence.
Range(s) == {s[i] : i \in DOMAIN s}

sample_cols == <<<<"FID">>, <<"IID">>, <<"PAT">>, <<"MAT">>, <<"SEX">>, <<"PHENOTYPE">>>>

VariantNames == {<<"rs1", "_", "A">>, <<"rs2">>}

VariantColumns ==
    {<<>>} \cup {<<v>> : v \in VariantNames}
           \cup ({<<v, w>> : v \in VariantNames, w \in VariantNames}
                    \ {<<v, v>> : v \in VariantNames})

\* The identity prefix as PLINK writes it, and one lacking its last column.
Prefixes == {sample_cols, SubSeq(sample_cols, 1, 5)}

CellTexts == {"NA", "0", "1", "2"}

RowId(i) == IF i % 2 = 1 THEN "S1" ELSE "S2"

IdentityCell(col, id) ==
    IF col = <<"IID">> THEN id ELSE IF col = <<"PHENOTYPE">> THEN "-9" ELSE "0"

TableOf(p, v, m, g) ==
    [exists |-> TRUE,
     cols |-> p \o v,
     rows |-> [i \in 1..m |->
                 [j \in 1..(Len(p) + Len(v)) |->
                     IF j <= Len(p) THEN IdentityCell(p[j], RowId(i))
                     ELSE g[i][j - Len(p)]]]]

\* A file that exists but holds nothing.
EmptyFile == [exists |-> TRUE, cols |-> <<>>, rows |-> <<>>]

\* pd.read_csv on one cell: the missing sentinel becomes NaN, a numeral a
\* number, anything else stays text.
read_cell(txt) ==
    CASE txt = "NA" -> [kind |-> "nan", num |-> 0, text |-> ""]
      [] txt = "0"  -> [kind |-> "num", num |-> 0, text |-> ""]
      [] txt = "1"  -> [kind |-> "num", num |-> 1, text |-> ""]
      [] txt = "2"  -> [kind |-> "num", num |-> 2, text |-> ""]
      [] txt = "-9" -> [kind |-> "num", num |-> 0 - 9, text |-> ""]
      [] OTHER      -> [kind |-> "str", num |-> 0, text |-> txt]

read_csv(raw) ==
    [columns |-> raw.cols,
     rows |-> [i \in DOMAIN raw.rows |->
                 [j \in DOMAIN raw.rows[i] |-> read_cell(raw.rows[i][j])]]]

\* str(int(v)) of a number.
str_int(n) ==
    CASE n = 0 -> "0" [] n = 1 -> "1" [] n = 2 -> "2" [] n = 0 - 9 -> "-9"
      [] OTHER -> "?"

\* str(v), as an f-string renders a value.
py_str(v) ==
    IF v.kind = "str" THEN v.text ELSE IF v.kind = "nan" THEN "nan" ELSE str_int(v.num)

\* Faulty variant of cell_text: a missing cell is written as the count 0.
cell_text_nona(v) == str_int(v.num)

\* Lines 84-88: one cell of a variant column, as written.
cell_text(v) == IF v.kind = "nan" THEN "NA" ELSE str_int(v.num)

RECURSIVE join(_, _)
join(sep, parts) ==
    IF Len(parts) = 0 THEN <<>>
    ELSE IF Len(parts) = 1 THEN parts[1]
    ELSE parts[1] \o <<sep>> \o join(sep, Tail(parts))

RECURSIVE split(_, _)
split(text, sep) ==
    IF sep \notin Range(text) THEN <<text>>
    ELSE LET k == CHOOSE i \in 1..Len(text) :
                      text[i] = sep /\ \A j \in 1..(i - 1) : text[j] # sep
         IN  <<SubSeq(text, 1, k - 1)>> \o split(SubSeq(text, k + 1, Len(text)), sep)

\* Faulty variant of header_with_bim: a column without "_" is dropped.
RECURSIVE header_with_bim_strict(_)
header_with_bim_strict(cols) ==
    IF Len(cols) = 0 THEN <<>>
    ELSE (IF "_" \in Range(Head(cols)) THEN <<Head(cols)>> ELSE <<>>)
             \o header_with_bim_strict(Tail(cols))

\* Lines 61-69: the header when the variant metadata was read.
RECURSIVE header_with_bim(_)
header_with_bim(cols) ==
    IF Len(cols) = 0 THEN <<>>
    ELSE (IF "_" \in Range(Head(cols))
          THEN (IF Len(split(Head(cols), "_")) >= 2 THEN <<Head(cols)>> ELSE <<>>)
          ELSE <<Head(cols)>>)
             \o header_with_bim(Tail(cols))

ColIndex(columns, c) == CHOOSE j \in 1..Len(columns) : columns[j] = c

NotSampleCol(c) == c \notin Range(sample_cols)

\* convert_genotypes: what it returns and the lines it writes to the output
\* file.  Every exception inside the try block ends in "return False".
convert_genotypes(raw, bim_exists) ==
    IF ~raw.exists THEN [ret |-> "fail", out |-> <<>>]
    ELSE IF Len(raw.cols) = 0 THEN [ret |-> "fail", out |-> <<>>]
    ELSE IF \E k \in 1..Len(sample_cols) : sample_cols[k] \notin Range(raw.cols)
         THEN [ret |-> "fail", out |-> <<>>]
    ELSE LET raw_data == read_csv(raw)
             genotype_cols == SelectSeq(raw_data.columns, NotSampleCol)
             header_parts == IF bim_exists
                             THEN <<<<"IID">>>> \o header_with_bim(genotype_cols)
                             ELSE <<<<"IID">>>> \o genotype_cols
             genotypes(row) ==
                 [k \in 1..Len(genotype_cols) |->
                     <<cell_text(row[ColIndex(raw_data.columns, genotype_cols[k])])>>]
             line(row) ==
                 <<py_str(row[ColIndex(raw_data.columns, <<"IID">>)]), "\t">>
                     \o join("\t", genotypes(row))
         IN  [ret |-> "ok",
              out |-> <<join("\t", header_parts)>>
                          \o [i \in 1..Len(raw_data.rows) |-> line(raw_data.rows[i])]]

\* main(): convert, then exit 0 on success and 1 on failure.
main ==
    /\ conversion.ret = "none"
    /\ LET res == convert_genotypes(conversion.raw, conversion.bim)
       IN  conversion' = [conversion EXCEPT !.ret = res.ret, !.out = res.out,
                                            !.exit = IF res.ret = "ok" THEN 0 ELSE 1]
    /\ UNCHANGED <<runs, fs, script, scoreDir, mode, driver>>

InitConv ==
    /\ runs = [r \in Runs |-> IdleRun]
    /\ fs = [p \in Paths |-> Absent]
    /\ script = NoScript
    /\ scoreDir = {}
    /\ mode = "single"
    /\ driver = NoDriverRun
    /\ \E bim \in BOOLEAN :
           \/ \E raw \in {AbsentTable, EmptyFile} :
                  conversion = [NoConversion EXCEPT !.raw = raw, !.bim = bim]
           \/ \E p \in Prefixes, v \in VariantColumns, m \in 0..MaxRows :
                  \E g \in [1..m -> [1..Len(v) -> CellTexts]] :
                      conversion = [NoConversion EXCEPT !.raw = TableOf(p, v, m, g), !.bim = bim]

NextConv == main

SpecConv == InitConv /\ [][NextConv]_vars

\* ------------------------------------------------------------------ claims
InvokedStages(r) == {runs[r].invoked[i].stage : i \in 1..Len(runs[r].invoked)}
Failure == {"fail", "nostart"}

\* Every required stage returned exit 0 and the run did not fail in one.
RequiredSucceeded(r) ==
    /\ \A st \in Required : runs[r].status[st] = "ok"
    /\ runs[r].failedAt \notin Required

\* C1: when a required stage ends with a non-zero exit the run is Failed and no
\* later stage's command is invoked.
C1_RequiredFailureAborts ==
    \A r \in Runs : \A st \in Required :
        runs[r].status[st] = "fail" =>
            /\ runs[r].outcome = "failed"
            /\ runs[r].failedAt = st
            /\ \A s2 \in InvokedStages(r) : StageIndex(s2) <= StageIndex(st)

C1_Witness ==
    \E r \in Runs :
        /\ runs[r].variant = "gui"
        /\ runs[r].status["convert"] = "fail"
        /\ Len(runs[r].invoked) = 5

\* C2: in prs_gui.py, a run whose required stages succeeded and whose ancestry
\* stage failed ends Completed.
C2_AncestryFailureCompletes ==
    \A r \in Runs :
        (/\ runs[r].variant = "gui"
         /\ RequiredSucceeded(r)
         /\ runs[r].status["ancestry"] \in Failure
         /\ Terminal(r))
        => runs[r].outcome = "completed"

\* C3: a failing parse-ancestry or report invocation does not fail the run:
\* the report stage is still attempted and the run ends Completed.
C3_OptionalFailureCaught ==
    \A r \in Runs :
        (/\ Terminal(r)
         /\ \/ runs[r].status["parse-ancestry"] = "fail"
            \/ runs[r].status["report"] = "fail")
        => /\ runs[r].outcome = "completed"
           /\ runs[r].status["report"] # "none"

\* The known path of an optional stage's artifact.
ArtifactOf(st) == IF st = "parse-ancestry" THEN <<"parse_script", Shared>>
                  ELSE <<"report_script", Shared>>

\* C4: an absent parser or report artifact means the stage is skipped without
\* a command, a skip never fails the run, and a run whose required stages
\* succeeded ends Completed whatever optional artifacts are present.
C4_AbsentOptionalSkipped ==
    \A r \in Runs :
        /\ \A st \in {"parse-ancestry", "report"} :
              /\ ~Exists(ArtifactOf(st)) => st \notin InvokedStages(r)
              /\ runs[r].status[st] = "skipped" => runs[r].failedAt # st
        /\ (Terminal(r) /\ RequiredSucceeded(r)) => runs[r].outcome = "completed"

\* C5: a stage's command is invoked only when the artifacts it consumes exist
\* as outputs of this run's earlier stages.
C5_InputsExist ==
    \A r \in Runs : \A i \in 1..Len(runs[r].invoked) :
        LET e == runs[r].invoked[i]
        IN /\ e.stage = "convert" => e.input = File(r, "raw")
           /\ e.stage = "ancestry" => (e.input.kind = "table" /\ e.input.by = r)
           /\ e.stage \in {"parse-ancestry", "report"} =>
                 (e.input.kind = "ancestry" /\ e.input.by = r)

\* C6: stage commands are invoked in the fixed order, each after the previous
\* one has returned, and each at most once per run.
C6_SequentialOnce ==
    \A r \in Runs :
        LET inv == runs[r].invoked
        IN /\ \A i, j \in 1..Len(inv) :
                i < j => StageIndex(inv[i].stage) < StageIndex(inv[j].stage)
           /\ \A i \in 1..Len(inv) :
                runs[r].status[inv[i].stage] = "running" => i = Len(inv)
           /\ runs[r].proc # "none" =>
                (Len(inv) > 0 /\ inv[Len(inv)].stage = runs[r].proc)

C6_Witness ==
    \E r \in Runs :
        /\ runs[r].outcome = "completed"
        /\ Len(runs[r].invoked) = Len(Stages)

\* C7: when the input variant-call file does not exist at validation, the run
\* fails with a file-not-found error and no stage command is invoked.
C7_MissingInputFatal ==
    \A r \in Runs :
        (/\ ~VcfExists(runs[r].vcf)
         /\ runs[r].pc \notin {"idle", "validate"}
         /\ runs[r].outcome # "returned")
        => /\ runs[r].outcome = "failed"
           /\ runs[r].failedAt = "validate"
           /\ runs[r].cause = "FileNotFoundError"
           /\ runs[r].invoked = <<>>

C7_Witness ==
    \E r \in Runs :
        /\ runs[r].vcf = "missing.vcf"
        /\ runs[r].outcome = "failed"

\* C8: when the converter exits 0 without having produced the genotype table
\* the run is Failed at convert; nothing is copied into the hand-off directory
\* and the ancestry stage is not invoked.
C8_MissingTableFatal ==
    \A r \in Runs :
        (/\ runs[r].status["convert"] = "ok"
         /\ runs[r].pc # "convert_check"
         /\ fs[P("geno", r)].kind # "table")
        => /\ runs[r].outcome = "failed"
           /\ runs[r].failedAt = "convert"
           /\ fs[<<"anc_geno", Shared>>].by # r
           /\ "ancestry" \notin InvokedStages(r)

\* A model file's name without its extension (its last token).
StripExtension(name) == SubSeq(name, 1, Len(name) - 1)

\* C9: for K >= 1 discovered model files the driver holds exactly K scoring
\* commands, one per file, each writing to the file's name without its extension.
C9_OneCommandPerModel ==
    \A r \in Runs :
        (runs[r].pc = "score_run" /\ script.by = r) =>
            /\ Len(script.cmds) = Cardinality(glob(scoreDir))
            /\ {script.cmds[i].par : i \in 1..Len(script.cmds)} = glob(scoreDir)
            /\ \A i \in 1..Len(script.cmds) :
                  script.cmds[i].out = StripExtension(script.cmds[i].par)

\* The step of create_ett_score_script on a directory without model files.
C10_Step ==
    \A r \in Runs :
        (/\ runs[r].pc = "score" /\ runs[r].variant = "gui"
         /\ glob(scoreDir) = {}
         /\ runs'[r] # runs[r])
        => /\ script' = script
           /\ runs'[r].outcome = "failed"
           /\ runs'[r].failedAt = "score"
           /\ runs'[r].cause = "FileNotFoundError"

\* C10: with no model file found create_ett_score_script raises without
\* touching the driver at its fixed location, and the calling run is Failed at
\* score with no later stage invoked.
C10_NoModelFilesFatal ==
    /\ [][C10_Step]_vars
    /\ [](\A r \in Runs :
            (runs[r].variant = "gui" /\ glob(scoreDir) = {} /\ runs[r].pc \notin {"idle", "validate"})
            => InvokedStages(r) \subseteq {"import", "normalize-ids"})

C10_Witness ==
    \E r \in Runs :
        /\ runs[r].variant = "gui"
        /\ glob(scoreDir) = {}
        /\ scoreDir # {}
        /\ runs[r].failedAt = "score"
        /\ runs[r].status["normalize-ids"] = "ok"
        /\ script.exists /\ script.by = 0

\* C11: the generated driver, called with both arguments, attempts all K model
\* commands in order whatever each one's exit status, and each command reports
\* its own success or failure.
C11_AllModelsAttempted ==
    (driver.exit # -1 /\ driver.args[1] # "" /\ driver.args[2] # "") =>
        /\ Len(driver.attempted) = Len(driver.cmds)
        /\ \A i \in 1..Len(driver.cmds) :
              /\ driver.attempted[i].par = driver.cmds[i].par
              /\ driver.attempted[i].report =
                    (IF driver.results[i] = "ok" THEN "completed" ELSE "failed")

C11_Witness ==
    /\ driver.exit # -1
    /\ Len(driver.cmds) = 2
    /\ driver.results[1] = "fail" /\ driver.results[2] = "ok"
    /\ Len(driver.attempted) = 2

\* C12: the driver's exit status does not depend on the per-model outcomes: it
\* is non-zero exactly when an argument is missing, so the score stage of the
\* run that called it succeeds and the run goes on to recode.
C12_DriverExitZero ==
    /\ driver.exit # -1 =>
          (driver.exit # 0 <=> (driver.args[1] = "" \/ driver.args[2] = ""))
    /\ \A r \in Runs :
          driver.caller = r =>
             /\ runs[r].status["score"] = "ok"
             /\ runs[r].failedAt # "score"
             /\ runs[r].pc \notin {"score", "score_run"}

C12_Witness ==
    \E r \in Runs :
        /\ driver.caller = r
        /\ Len(driver.cmds) = 2
        /\ \A i \in 1..2 : driver.results[i] = "fail"
        /\ runs[r].pc = "recode"

\* C13: two calls of create_ett_score_script on the same directory write the
\* same script to the fixed location, the later one overwriting the earlier,
\* whatever order the directory enumeration returns the files in.
C13_SynthesisIdempotent ==
    \A r, q \in Runs :
        (runs[r].wrote.exists /\ runs[q].wrote.exists) =>
            /\ runs[r].wrote.cmds = runs[q].wrote.cmds
            /\ runs[r].wrote.bin = runs[q].wrote.bin
            /\ script.cmds = runs[r].wrote.cmds

\* The converter's input table is an allele-count table: it exists and its
\* header starts with the six identity columns.
IsAlleleCountTable(raw) ==
    /\ raw.exists
    /\ Len(raw.cols) >= Len(sample_cols)
    /\ SubSeq(raw.cols, 1, Len(sample_cols)) = sample_cols

NVariants(raw) == Len(raw.cols) - Len(sample_cols)

\* C14: for an allele-count table with the identity prefix, N variant columns
\* and M rows, the output's header and every row have N+1 tab-separated
\* fields (the sample identifier, then the N variants in header order) and
\* there are exactly M data rows, in input order.
C14_OutputShape ==
    (conversion.ret # "none" /\ IsAlleleCountTable(conversion.raw)) =>
        LET raw == conversion.raw
            N == NVariants(raw)
            M == Len(raw.rows)
            out == conversion.out
        IN  /\ conversion.ret = "ok"
            /\ Len(out) = M + 1
            /\ \A l \in 1..Len(out) : Len(split(out[l], "\t")) = N + 1
            /\ Len(out) >= 1 =>
                  /\ split(out[1], "\t")[1] = <<"IID">>
                  /\ \A k \in 1..N : k + 1 <= Len(split(out[1], "\t")) =>
                        split(out[1], "\t")[k + 1] = raw.cols[Len(sample_cols) + k]
            /\ \A i \in 1..M : i + 1 <= Len(out) =>
                  split(out[i + 1], "\t")[1] = <<raw.rows[i][2]>>

\* C15: every cell of a variant column is written as NA when it holds the
\* missing sentinel and as the decimal string of its count otherwise.
C15_CellMapping ==
    (conversion.ret = "ok") =>
        LET raw == conversion.raw
            out == conversion.out
        IN  \A i \in 1..Len(raw.rows) : \A k \in 1..NVariants(raw) :
                LET cell == raw.rows[i][Len(sample_cols) + k]
                    field == split(out[i + 1], "\t")[k + 1]
                IN  /\ cell = "NA" <=> field = <<"NA">>
                    /\ \A n \in 0..2 : cell = str_int(n) <=> field = <<str_int(n)>>

C15_Witness ==
    /\ conversion.ret = "ok"
    /\ Len(conversion.raw.rows) = 2
    /\ NVariants(conversion.raw) = 2
    /\ conversion.raw.rows[1][7] = "NA" /\ conversion.raw.rows[1][8] = "2"
    /\ conversion.raw.rows[2][7] = "0" /\ conversion.raw.rows[2][8] = "1"
    /\ conversion.out[2] = <<"S1", "\t", "NA", "\t", "2">>
    /\ conversion.out[3] = <<"S2", "\t", "0", "\t", "1">>

\* C16: the converter reports failure only when the allele-count table is
\* absent; in every other case it writes its output and reports success.
C16_FailsOnlyWhenAbsent ==
    conversion.ret # "none" =>
        /\ conversion.ret = "fail" <=> ~conversion.raw.exists
        /\ conversion.raw.exists => (Len(conversion.out) >= 1 /\ conversion.exit = 0)

\* C17: with the variant metadata absent the converter succeeds on an
\* allele-count table, its header is IID followed by the raw variant column
\* names, and the output equals the one written when the metadata is present.
C17_AbsentMetadataSameOutput ==
    (conversion.ret # "none" /\ ~conversion.bim /\ IsAlleleCountTable(conversion.raw)) =>
        /\ conversion.ret = "ok"
        /\ conversion.exit = 0
        /\ conversion.out[1] =
              join("\t", <<<<"IID">>>> \o SubSeq(conversion.raw.cols, Len(sample_cols) + 1,
                                                 Len(conversion.raw.cols)))
        /\ conversion.out = convert_genotypes(conversion.raw, TRUE).out

C17_Witness ==
    /\ conversion.ret = "ok"
    /\ ~conversion.bim
    /\ conversion.raw.cols = sample_cols \o <<<<"rs2">>, <<"rs1", "_", "A">>>>
    /\ Len(conversion.raw.rows) = 1
    /\ conversion.out[1] = <<"IID", "\t", "rs2", "\t", "rs1", "_", "A">>

\* Two calls that run side by side for distinct samples.
Concurrent(r, q) ==
    /\ r # q
    /\ mode = "concurrent"
    /\ runs[r].pc # "idle" /\ runs[q].pc # "idle"
    /\ runs[r].sample # runs[q].sample

\* The ancestry hand-off directory.
HandOff == {S("anc_geno"), S("anc_out")}

\* C18: of two concurrent runs for distinct samples, every location one run
\* writes outside the ancestry hand-off directory lies in its own per-sample
\* directories and is neither written nor read by the other run.
C18_WritesDisjoint ==
    \A r, q \in Runs :
        Concurrent(r, q) =>
            \A l \in runs[r].writes \ HandOff :
                /\ l[2] = runs[r].sample
                /\ l \notin runs[q].writes \cup runs[q].reads

\* C19: of two concurrent runs for distinct samples, the genotype table the
\* ancestry estimator reads in a run is the one that run's convert stage
\* handed off.
C19_AncestryReadsOwnTable ==
    \A r, q \in Runs :
        (Concurrent(r, q) /\ runs[r].anc_read # Absent) => runs[r].anc_read.by = r

\* C20: the command-line process exits 0 when the run completed and 1 when it
\* ended in an orchestration failure.
C20_ExitCode ==
    \A r \in Runs :
        runs[r].exit # -1 =>
            /\ runs[r].outcome = "completed" => runs[r].exit = 0
            /\ runs[r].outcome = "failed" => runs[r].exit = 1

\* C21: in every run, each stage invocation is logged before its process is
\* started, whatever the process then does: every start is directly preceded
\* by the log line of the same stage, and every invocation has its start.
C21_LoggedBeforeStart ==
    \A r \in Runs :
        LET ev == runs[r].events
        IN  /\ \A i \in 1..Len(ev) :
                  ev[i].kind = "start" =>
                      i > 1 /\ ev[i - 1] = [kind |-> "log", stage |-> ev[i].stage]
            /\ Len(ev) = 2 * Len(runs[r].invoked)
            /\ \A k \in 1..Len(runs[r].invoked) :
                  ev[2 * k] = [kind |-> "start", stage |-> runs[r].invoked[k].stage]

C21_Witness ==
    \E r \in Runs :
        /\ runs[r].status["import"] = "ok"
        /\ runs[r].status["normalize-ids"] = "nostart"
        /\ runs[r].outcome = "failed"
        /\ Len(runs[r].events) = 4

\* A step that leaves call r failed: the one that raises into the handlers at
\* the end of run_pipeline_cli, or a later one of the same call.
C22_Step ==
    \A r \in Runs :
        runs'[r].outcome = "failed" => (fs' = fs /\ script' = script)

\* C22: no rollback.  The step in which a run becomes Failed, and every step
\* of the run after it, leaves every artifact as it was: directories,
\* imported and normalized sets, the driver, score outputs, the converter copy.
C22_NoRollback == [][C22_Step]_vars

C22_Witness ==
    \E r \in Runs :
        /\ runs[r].outcome = "failed" /\ runs[r].failedAt = "recode"
        /\ runs[r].exit = 0
        /\ script.by = r
        /\ \A k \in {"vcf_dir", "prs_dir", "bed", "bed_id", "sscore"} :
              fs[P(k, r)].by = r

\* The stage a run's output points at: the stage of the last ">>> RUN" line.
LastLogged(r) ==
    LET ev == runs[r].events
    IN  IF Len(ev) = 0 THEN "none" ELSE ev[Len(ev)].stage

\* C23: when a stage invocation makes the run fail, the run's output names
\* that stage and the cause: the last command logged is the one of the failed
\* stage, the error line carries the kind of failure and the command (or the
\* executable) of that stage, and the terminal state is Failed(stage, cause).
C23_FailureNamesStage ==
    \A r \in Runs : \A st \in StageSet :
        (runs[r].outcome = "failed" /\ runs[r].status[st] \in {"fail", "nostart"}
            /\ Len(runs[r].invoked) > 0
            /\ runs[r].invoked[Len(runs[r].invoked)].stage = st) =>
            /\ runs[r].failedAt = st
            /\ LastLogged(r) = st
            /\ runs[r].cause = Exc(runs[r].status[st])
            /\ runs[r].report.handler = runs[r].cause
            /\ runs[r].report.text[1] = Binary(st)
            /\ runs[r].status[st] = "fail" =>
                  (/\ runs[r].report.text = Command(st)
                   /\ \A s2 \in StageSet : Command(s2) = runs[r].report.text => s2 = st)

C23_Witness ==
    \E r \in Runs :
        /\ runs[r].outcome = "failed"
        /\ runs[r].status["recode"] = "fail"
        /\ runs[r].report = [handler |-> "CalledProcessError", text |-> Command("recode")]

\* The stages a run must have carried out to be Completed.
CoreStages == {"import", "normalize-ids", "score", "recode", "convert"}

\* C24: a run reports Completed only if each of import, normalize-ids, score,
\* recode and convert was invoked and exited 0 in that run, and the genotype
\* table is the one that run's converter produced.
C24_CompletedOnlyAfterCore ==
    \A r \in Runs :
        runs[r].outcome = "completed" =>
            /\ \A st \in CoreStages :
                  st \in InvokedStages(r) /\ runs[r].status[st] = "ok"
            /\ fs[P("geno", r)].kind = "table"
            /\ fs[P("geno", r)].by = r

\* Calls r and q saw the same outcome in every stage both of them invoked.
SameOutcomes(r, q) ==
    \A st \in InvokedStages(r) \cap InvokedStages(q) :
        runs[r].status[st] = runs[q].status[st]

\* C25: a prs_gui.py call and a prs_pipeline.py call on the same input whose
\* stage invocations have the same outcomes invoke the same stages and end in
\* the same terminal state.
C25_SameFailurePolicy ==
    \A r, q \in Runs :
        (/\ runs[r].pc = "done" /\ runs[q].pc = "done"
         /\ runs[r].variant = "gui" /\ runs[q].variant = "pipeline"
         /\ runs[r].vcf = runs[q].vcf
         /\ SameOutcomes(r, q)) =>
            /\ InvokedStages(r) = InvokedStages(q)
            /\ runs[r].outcome = runs[q].outcome
            /\ runs[r].failedAt = runs[q].failedAt

\* C26: the converter copy a run has written into its per-sample directory
\* names that run's own normalized variant-metadata file (<sample>_id.bim),
\* whatever runs came before it.
C26_CopyNamesOwnMetadata ==
    \A r \in Runs :
        (runs[r].sample \in Samples /\ fs[P("conv", r)] # Absent /\ fs[P("conv", r)].by = r) =>
            fs[P("conv", r)].ref = runs[r].sample

\* C27: in a driver written by create_ett_score_script, distinct model files
\* have distinct output basenames, so no two commands write the same output.
C27_DistinctOutputs ==
    script.by # 0 =>
        \A i, j \in 1..Len(script.cmds) :
            script.cmds[i].par # script.cmds[j].par =>
                script.cmds[i].out # script.cmds[j].out

\* C29: a configuration store that cannot be read or parsed never makes a
\* run fail, and the scoring binary named in a driver the run has written is
\* the binary the run uses for normalize-ids.
C29_ConfigNeverFatal ==
    \A r \in Runs :
        /\ (runs[r].outcome = "failed" /\ fs[ConfigPath].kind \in {"malformed", "unreadable"}) =>
              runs[r].report.text # <<"config">>
        /\ (script.by = r /\ runs[r].wrote.exists) => runs[r].wrote.bin = runs[r].plink2_bin

\* The arguments with which run_pipeline_cli returns at once; the
\* scoring-model directory is the one in effect (the argument or, without
\* one, the configured directory).
EarlyReturnArgs(r) ==
    \/ runs[r].vcf = ""
    \/ runs[r].sample = ""
    \/ runs[r].variant = "gui" /\ (runs[r].score_dir = "" \/ ~ScoreDirExists(runs[r].score_dir))

\* C28: a call with an empty input path or sample identifier, or (prs_gui.py)
\* with no or a non-existent scoring-model directory, returns without creating
\* a per-sample directory, writing anything or invoking a stage command.
C28_EarlyReturnTouchesNothing ==
    \A r \in Runs :
        (runs[r].pc # "idle" /\ EarlyReturnArgs(r)) =>
            /\ runs[r].pc = "done" /\ runs[r].outcome = "returned"
            /\ runs[r].invoked = <<>> /\ runs[r].events = <<>>
            /\ runs[r].writes = {}
            /\ \A p \in Paths : fs[p].by # r
            /\ script.by # r

C28_Witness ==
    \E r \in Runs :
        /\ runs[r].outcome = "returned"
        /\ runs[r].variant = "gui"
        /\ runs[r].vcf = "ok.vcf" /\ runs[r].sample = "S1" /\ runs[r].score_dir = "nodir"
        /\ runs[r].exit = 0
====
